---- MODULE Spec2Model ----
(***************************************************************************)
(* Serial loopback tester: the two scripts of python_scripts/              *)
(*   V2 = serial_test_V2.py                                                *)
(*   V3 = serial_test_V3_with_log_without_reconfigure.py                   *)
(* main() of each script is one sequential process; every statement of it  *)
(* that touches the statistics, the port, the terminal or the CSV file is  *)
(* one action.  The environment is the serial line (bytes arriving in the  *)
(* input buffer, port faults), the file system (the CSV append failing)    *)
(* and the user (Ctrl-C).                                                  *)
(***************************************************************************)
EXTENDS Integers, Sequences, FiniteSets, TLC

\* ------------------------------------------------------------------ bounds
\* trials (writes) of one run
MaxTrials == 5
\* longest received byte string of the classification cases (ClassifySpec)
MaxRxLen == 3
\* rows of serial_log.csv up to which a further run of the script is followed
\* (LogSpec)
MaxLogRows == 1

\* --------------------------------------------------------------- constants
\* hex_data of serial_test_V2.py, character by character
HexDataV2 ==
    << "5","A"," ","0","0"," ","0","0"," ","0","0"," ","0","0"," ","0","0",
       " ","f","6"," ","9","6"," ","0","0"," ","0","0" >>

\* hex_data of serial_test_V3_with_log_without_reconfigure.py
HexDataV3 ==
    << "5","A"," ","0","0"," ","0","0"," ","0","0"," ","0","0"," ","0","0",
       " ","F","6"," ","9","6"," ","0","0"," ","0","0" >>

\* payload strings the parser rejects: odd digit count, non-hex character,
\* white space inside a byte
MalformedHex == { <<"5","A"," ","0">>, <<"5","G">>, <<"5"," ","A">> }

\* a short well-formed payload string
ShortHex == <<"5","a"," ","0","1">>

\* ------------------------------------------------------------ payload codec
HexDigitsUpper ==
    <<"0","1","2","3","4","5","6","7","8","9","A","B","C","D","E","F">>

HexDigitsLower ==
    <<"0","1","2","3","4","5","6","7","8","9","a","b","c","d","e","f">>

IsHexDigit(c) ==
    \E i \in 1..16 : HexDigitsUpper[i] = c \/ HexDigitsLower[i] = c

HexVal(c) ==
    (CHOOSE i \in 1..16 : HexDigitsUpper[i] = c \/ HexDigitsLower[i] = c) - 1

IsSpace(c) == c \in {" ", "\t", "\n", "\r"}

\* bytes.fromhex: white space is skipped between bytes only; a byte is two
\* adjacent hex digits; anything else raises ValueError (ok = FALSE)
RECURSIVE FromHex(_, _, _)
FromHex(s, i, acc) ==
    IF i > Len(s) THEN [ok |-> TRUE, bytes |-> acc]
    ELSE IF IsSpace(s[i]) THEN FromHex(s, i + 1, acc)
    ELSE IF ~IsHexDigit(s[i]) THEN [ok |-> FALSE, bytes |-> <<>>]
    ELSE IF i + 1 > Len(s) THEN [ok |-> FALSE, bytes |-> <<>>]
    ELSE IF ~IsHexDigit(s[i + 1]) THEN [ok |-> FALSE, bytes |-> <<>>]
    ELSE FromHex(s, i + 2, Append(acc, 16 * HexVal(s[i]) + HexVal(s[i + 1])))

hex_to_bytes(hex_string) == FromHex(hex_string, 1, <<>>)

\* mutant of ToHexUpper: bytes.hex() without .upper()
RECURSIVE ToHexLower(_)
ToHexLower(b) ==
    IF b = <<>> THEN <<>>
    ELSE << HexDigitsLower[(b[1] \div 16) + 1], HexDigitsLower[(b[1] % 16) + 1] >>
         \o ToHexLower(Tail(b))

\* bytes.hex().upper(): two upper-case digits per byte, no separators
RECURSIVE ToHexUpper(_)
ToHexUpper(b) ==
    IF b = <<>> THEN <<>>
    ELSE << HexDigitsUpper[(b[1] \div 16) + 1], HexDigitsUpper[(b[1] % 16) + 1] >>
         \o ToHexUpper(Tail(b))

\* --------------------------------------------------------------- variables
VARIABLES
    variant,         \* which script runs: "V2" or "V3"
    hex_data,        \* the payload string of the script
    pc,              \* position of main()
    target_payload,  \* bytes parsed from hex_data
    stats,           \* the statistics dict
    seq_no,          \* V3: sequence number of the trial in progress
    response,        \* bytes returned by the last read_all()
    error_type,      \* V3 error_type / V2 err_msg of the trial in progress
    error_occurred,  \* V2 error_occurred
    err_detail,      \* V2 err_detail: [text, hex]
    ser,             \* "unbound" (no local ser), "open", "closed"
    rxbuf,           \* the port's input buffer
    pending,         \* writes the remote end has not answered yet
    csv_exists,      \* serial_log.csv exists
    csv_rows,        \* rows of serial_log.csv
    stdout,          \* what was written to the terminal, in order
    exc,             \* the exception that ended the loop, "none" while running
    exit_code,       \* process exit status, -1 while the process runs
    opens, closes, writes, reads,   \* transport operations performed
    outcomes,        \* error_type assigned to each classified trial, in order
    line_log         \* the calls made on the port, in order, with their results

vars == << variant, hex_data, pc, target_payload, stats, seq_no, response,
           error_type, error_occurred, err_detail, ser, rxbuf, pending, csv_exists,
           csv_rows, stdout, exc, exit_code, opens, closes, writes, reads,
           outcomes, line_log >>

\* ------------------------------------------------------------------ helpers
NoStats == [total_sent |-> 0, total_errors |-> 0, err_no_resp |-> 0,
            err_mismatch |-> 0]

NoDetail == [text |-> "", hex |-> <<>>]

\* the header row init_csv writes
Header == [kind |-> "header",
           cols |-> <<"timestamp", "seq_no", "tx_hex", "rx_hex", "error_type">>]

\* hex_data of the script that runs
HexData(v) == IF v = "V2" THEN HexDataV2 ELSE HexDataV3

\* mutant of LoopTop: the loop body starts after the write
LoopTopAfterWrite(v) == "sleep"

\* first statement of the while body
LoopTop(v) == IF v = "V2" THEN "write" ELSE "stamp"

\* positions inside the try block (the open and the loop)
LoopPcs == {"stamp", "write", "count", "sleep", "read", "analyze",
            "inc_noresp", "inc_total_noresp", "inc_mismatch",
            "inc_total_mismatch", "log_error", "write_csv", "status",
            "loop_delay"}

TryPcs(v) == IF v = "V2" THEN LoopPcs \cup {"open", "parse"}
             ELSE LoopPcs \cup {"open"}

\* positions of V3 before its try block
PreTryPcs(v) == IF v = "V2" THEN {} ELSE {"init_csv", "init_csv_header", "parse"}

\* the exceptions main() has an except clause for
Caught == {"KeyboardInterrupt", "SerialException"}

\* mutant of RaiseFrom: a fault of the read is taken for an empty read
RaiseFromReadFaultIgnored(v, p, e) ==
    IF e = "SerialException" /\ p = "read" THEN "analyze"
    ELSE IF p \in TryPcs(v)
    THEN IF e = "KeyboardInterrupt" THEN "except_kbd"
         ELSE IF e = "SerialException" THEN "except_serial"
         ELSE "finally"
    ELSE "traceback"

\* an exception raised at position p: into the handlers when p is inside the
\* try block, out of main() with a traceback otherwise
RaiseFrom(v, p, e) ==
    IF p \in TryPcs(v)
    THEN IF e = "KeyboardInterrupt" THEN "except_kbd"
         ELSE IF e = "SerialException" THEN "except_serial"
         ELSE "finally"
    ELSE "traceback"

\* mutant of Incr: the total_errors increment is forgotten
IncrForgetsTotalErrors(s, key) ==
    IF key = "total_errors" THEN s ELSE [s EXCEPT ![key] = @ + 1]

\* stats[key] += 1
Incr(s, key) == [s EXCEPT ![key] = @ + 1]

\* mutant of NextSeqNo: the number of the previous trial is reused
NextSeqNoStale(s) == s.total_sent

\* V3: seq_no = stats["total_sent"] + 1
NextSeqNo(s) == s.total_sent + 1

\* mutant of ShouldClose: the is_open test is inverted
ShouldCloseInverted(s) == s = "closed"

\* finally: 'ser' in locals() and ser.is_open
ShouldClose(s) == s = "open"

\* "not response"
IsNoResponse(resp) == Len(resp) = 0

\* mutant of IsMismatch: compares only as many bytes as were received
IsMismatchOfReceivedBytes(resp, payload) ==
    \E i \in 1..Len(resp) : i > Len(payload) \/ resp[i] # payload[i]

\* "response != target_payload"
IsMismatch(resp, payload) == resp # payload

\* the remote end's answer with one byte changed
Corrupt(b) ==
    LET i == IF Len(b) >= 2 THEN 2 ELSE 1
    IN  [b EXCEPT ![i] = (@ + 1) % 256]

\* what the remote end may put on the line in answer to a write
LineChunks(payload) == {payload, Corrupt(payload)}

\* mutant of PctTenths: count / total as an integer division
PctTenthsFloorDivision(count, total) == (count \div total) * 1000

\* (count / total) * 100 as printed with one decimal, in tenths of a percent
PctTenths(count, total) ==
    LET n == count * 1000
        q == n \div total
        r == n % total
    IN  IF 2 * r > total THEN q + 1
        ELSE IF 2 * r < total THEN q
        ELSE IF q % 2 = 0 THEN q ELSE q + 1

TextLine(t) == [kind |-> "text", text |-> t]

\* one call on the port: serial.Serial(), ser.write(), ser.read_all() or
\* ser.close(), whether it returned (ok) or raised, and the bytes it returned
PortCall(op, ok, rx) == [op |-> op, ok |-> ok, rx |-> rx]

\* mutant of BufferAfterWrite: the input buffer is reset before each write
BufferAfterWriteReset(buf) == <<>>

\* ser.write() leaves the input buffer as it is (no reset_input_buffer())
BufferAfterWrite(buf) == buf

\* -------------------------------------------------------------------- Init
Init ==
    /\ variant \in {"V2", "V3"}
    /\ hex_data \in {HexData(variant)} \cup MalformedHex
    /\ pc = IF variant = "V2" THEN "open" ELSE "init_csv"
    /\ target_payload = <<>>
    /\ stats = NoStats
    /\ seq_no = 0
    /\ response = <<>>
    /\ error_type = ""
    /\ error_occurred = FALSE
    /\ err_detail = NoDetail
    /\ ser = "unbound"
    /\ rxbuf = <<>>
    /\ pending = 0
    /\ csv_exists \in IF variant = "V3" THEN BOOLEAN ELSE {FALSE}
    /\ csv_rows = IF csv_exists THEN <<Header>> ELSE <<>>
    /\ stdout = <<>>
    /\ exc = "none"
    /\ exit_code = -1
    /\ opens = 0 /\ closes = 0 /\ writes = 0 /\ reads = 0
    /\ outcomes = <<>>
    /\ line_log = <<>>

\* ----------------------------------------------------------------- startup
\* V3 init_csv(): open(CSV_FILE, "x") creates the empty file, or raises
\* FileExistsError, which is passed over
init_csv ==
    /\ pc = "init_csv"
    /\ IF csv_exists
       THEN /\ pc' = "parse"
            /\ UNCHANGED << csv_exists, csv_rows >>
       ELSE /\ csv_exists' = TRUE
            /\ csv_rows' = <<>>
            /\ pc' = "init_csv_header"
    /\ UNCHANGED << variant, hex_data, target_payload, stats, seq_no, response,
                    error_type, error_occurred, err_detail, ser, rxbuf, pending,
                    stdout, exc, exit_code, opens, closes, writes, reads,
                    outcomes, line_log >>

\* V3 init_csv(): writer.writerow([...]) and the end of the with block: the
\* header row is in the file
InitCsvWriteHeader ==
    /\ pc = "init_csv_header"
    /\ csv_rows' = Append(csv_rows, Header)
    /\ pc' = "parse"
    /\ UNCHANGED << variant, hex_data, target_payload, stats, seq_no, response,
                    error_type, error_occurred, err_detail, ser, rxbuf, pending,
                    csv_exists, stdout, exc, exit_code, opens, closes, writes,
                    reads, outcomes, line_log >>

\* target_payload = hex_to_bytes(hex_data); V3 then prints the table head
ParsePayload ==
    /\ pc = "parse"
    /\ LET r == hex_to_bytes(hex_data)
       IN  IF r.ok
           THEN /\ target_payload' = r.bytes
                /\ pc' = IF variant = "V2" THEN LoopTop(variant) ELSE "open"
                /\ stdout' = IF variant = "V3"
                             THEN Append(stdout, TextLine("table head"))
                             ELSE stdout
                /\ exc' = exc
           ELSE /\ exc' = "ValueError"
                /\ pc' = RaiseFrom(variant, pc, "ValueError")
                /\ UNCHANGED << target_payload, stdout >>
    /\ UNCHANGED << variant, hex_data, stats, seq_no, response, error_type,
                    error_occurred, err_detail, ser, rxbuf, pending, csv_exists,
                    csv_rows, exit_code, opens, closes, writes, reads,
                    outcomes,
                    line_log >>

\* ser = serial.Serial(port_name, BAUDRATE, timeout=TIMEOUT); V2 then prints
\* the table head
OpenPortOk ==
    /\ pc = "open"
    /\ ser' = "open"
    /\ opens' = opens + 1
    /\ rxbuf' = <<>>
    /\ stdout' = IF variant = "V2"
                 THEN Append(stdout, TextLine("table head"))
                 ELSE stdout
    /\ pc' = IF variant = "V2" THEN "parse" ELSE LoopTop(variant)
    /\ line_log' = Append(line_log, PortCall("open", TRUE, <<>>))
    /\ UNCHANGED << variant, hex_data, target_payload, stats, seq_no, response,
                    error_type, error_occurred, err_detail, pending, csv_exists,
                    csv_rows, exc, exit_code, closes, writes, reads, outcomes >>

\* serial.Serial(...) raises SerialException: the endpoint cannot be opened
OpenPortFail ==
    /\ pc = "open"
    /\ exc' = "SerialException"
    /\ pc' = RaiseFrom(variant, pc, "SerialException")
    /\ line_log' = Append(line_log, PortCall("open", FALSE, <<>>))
    /\ UNCHANGED << variant, hex_data, target_payload, stats, seq_no, response,
                    error_type, error_occurred, err_detail, ser, rxbuf, pending,
                    csv_exists, csv_rows, stdout, exit_code, opens, closes,
                    writes, reads, outcomes >>

\* -------------------------------------------------------------- trial loop
\* V3: timestamp = now; seq_no = stats["total_sent"] + 1
Stamp ==
    /\ pc = "stamp"
    /\ seq_no' = NextSeqNo(stats)
    /\ pc' = "write"
    /\ UNCHANGED << variant, hex_data, target_payload, stats, response,
                    error_type, error_occurred, err_detail, ser, rxbuf, pending,
                    csv_exists, csv_rows, stdout, exc, exit_code, opens, closes,
                    writes, reads, outcomes,
                    line_log >>

\* ser.write(target_payload) returns: the payload is on the line and the
\* remote end owes one answer
SerWriteOk ==
    /\ pc = "write"
    /\ writes < MaxTrials
    /\ writes' = writes + 1
    /\ pending' = pending + 1
    /\ pc' = "count"
    /\ line_log' = Append(line_log, PortCall("write", TRUE, <<>>))
    /\ rxbuf' = BufferAfterWrite(rxbuf)
    /\ UNCHANGED << variant, hex_data, target_payload, stats, seq_no, response,
                    error_type, error_occurred, err_detail, ser,
                    csv_exists, csv_rows, stdout, exc, exit_code, opens, closes,
                    reads, outcomes >>

\* ser.write(target_payload) raises SerialException
SerWriteFail ==
    /\ pc = "write"
    /\ exc' = "SerialException"
    /\ pc' = RaiseFrom(variant, pc, "SerialException")
    /\ line_log' = Append(line_log, PortCall("write", FALSE, <<>>))
    /\ UNCHANGED << variant, hex_data, target_payload, stats, seq_no, response,
                    error_type, error_occurred, err_detail, ser, rxbuf, pending,
                    csv_exists, csv_rows, stdout, exit_code, opens, closes,
                    writes, reads, outcomes >>

\* V2: stats["total_sent"] += 1      V3: stats["total_sent"] = seq_no
CountSent ==
    /\ pc = "count"
    /\ stats' = IF variant = "V2" THEN Incr(stats, "total_sent")
                 ELSE [stats EXCEPT !.total_sent = seq_no]
    /\ pc' = "sleep"
    /\ UNCHANGED << variant, hex_data, target_payload, seq_no, response,
                    error_type, error_occurred, err_detail, ser, rxbuf, pending,
                    csv_exists, csv_rows, stdout, exc, exit_code, opens, closes,
                    writes, reads, outcomes,
                    line_log >>

\* time.sleep(DELAY_AFTER_SEND)
SleepAfterSend ==
    /\ pc = "sleep"
    /\ pc' = "read"
    /\ UNCHANGED << variant, hex_data, target_payload, stats, seq_no, response,
                    error_type, error_occurred, err_detail, ser, rxbuf, pending,
                    csv_exists, csv_rows, stdout, exc, exit_code, opens, closes,
                    writes, reads, outcomes,
                    line_log >>

\* response = ser.read_all(): everything in the input buffer, which is left
\* empty; nothing is discarded before the write
SerReadAllOk ==
    /\ pc = "read"
    /\ response' = rxbuf
    /\ rxbuf' = <<>>
    /\ reads' = reads + 1
    /\ pc' = "analyze"
    /\ line_log' = Append(line_log, PortCall("read", TRUE, rxbuf))
    /\ UNCHANGED << variant, hex_data, target_payload, stats, seq_no,
                    error_type, error_occurred, err_detail, ser, pending,
                    csv_exists, csv_rows, stdout, exc, exit_code, opens, closes,
                    writes, outcomes >>

\* ser.read_all() raises SerialException
SerReadAllFail ==
    /\ pc = "read"
    /\ exc' = "SerialException"
    /\ pc' = RaiseFrom(variant, pc, "SerialException")
    /\ line_log' = Append(line_log, PortCall("read", FALSE, <<>>))
    /\ UNCHANGED << variant, hex_data, target_payload, stats, seq_no, response,
                    error_type, error_occurred, err_detail, ser, rxbuf, pending,
                    csv_exists, csv_rows, stdout, exit_code, opens, closes,
                    writes, reads, outcomes >>

\* the locals of the analysis are reset and the if / elif is decided
Analyze ==
    /\ pc = "analyze"
    /\ error_type' = ""
    /\ error_occurred' = FALSE
    /\ err_detail' = NoDetail
    /\ pc' = IF IsNoResponse(response) THEN "inc_noresp"
             ELSE IF IsMismatch(response, target_payload) THEN "inc_mismatch"
             ELSE "log_error"
    /\ UNCHANGED << variant, hex_data, target_payload, stats, seq_no, response,
                    ser, rxbuf, pending, csv_exists, csv_rows, stdout, exc,
                    exit_code, opens, closes, writes, reads, outcomes,
                    line_log >>

\* stats["err_no_resp"] += 1
IncNoResp ==
    /\ pc = "inc_noresp"
    /\ stats' = Incr(stats, "err_no_resp")
    /\ pc' = "inc_total_noresp"
    /\ UNCHANGED << variant, hex_data, target_payload, seq_no, response,
                    error_type, error_occurred, err_detail, ser, rxbuf, pending,
                    csv_exists, csv_rows, stdout, exc, exit_code, opens, closes,
                    writes, reads, outcomes,
                    line_log >>

\* stats["total_errors"] += 1 and the locals of the no-response branch
IncTotalNoResp ==
    /\ pc = "inc_total_noresp"
    /\ stats' = Incr(stats, "total_errors")
    /\ error_type' = "NO RESPONSE"
    /\ error_occurred' = (variant = "V2")
    /\ err_detail' = IF variant = "V2"
                     THEN [text |-> "Buffer empty", hex |-> <<>>]
                     ELSE NoDetail
    /\ pc' = "log_error"
    /\ UNCHANGED << variant, hex_data, target_payload, seq_no, response, ser,
                    rxbuf, pending, csv_exists, csv_rows, stdout, exc,
                    exit_code, opens, closes, writes, reads, outcomes,
                    line_log >>

\* stats["err_mismatch"] += 1
IncMismatch ==
    /\ pc = "inc_mismatch"
    /\ stats' = Incr(stats, "err_mismatch")
    /\ pc' = "inc_total_mismatch"
    /\ UNCHANGED << variant, hex_data, target_payload, seq_no, response,
                    error_type, error_occurred, err_detail, ser, rxbuf, pending,
                    csv_exists, csv_rows, stdout, exc, exit_code, opens, closes,
                    writes, reads, outcomes,
                    line_log >>

\* stats["total_errors"] += 1 and the locals of the mismatch branch
IncTotalMismatch ==
    /\ pc = "inc_total_mismatch"
    /\ stats' = Incr(stats, "total_errors")
    /\ error_type' = "DATA MISMATCH"
    /\ error_occurred' = (variant = "V2")
    /\ err_detail' = IF variant = "V2"
                     THEN [text |-> "Rx: ", hex |-> ToHexUpper(response)]
                     ELSE NoDetail
    /\ pc' = "log_error"
    /\ UNCHANGED << variant, hex_data, target_payload, seq_no, response, ser,
                    rxbuf, pending, csv_exists, csv_rows, stdout, exc,
                    exit_code, opens, closes, writes, reads, outcomes,
                    line_log >>

\* mutant of ErrorLine: printed without the leading "\n"
ErrorLineWithoutBreak ==
    [kind |-> "error", nl |-> FALSE,
     seq_no |-> IF variant = "V2" THEN stats.total_sent ELSE seq_no,
     error_type |-> error_type,
     detail |-> err_detail,
     trial |-> writes]

\* the error line printed for the trial: V2 prints stats["total_sent"], the
\* message and the detail, V3 prints seq_no and error_type
ErrorLine ==
    [kind |-> "error", nl |-> TRUE,
     seq_no |-> IF variant = "V2" THEN stats.total_sent ELSE seq_no,
     error_type |-> error_type,
     detail |-> err_detail,
     trial |-> writes]

\* "if error_occurred:" (V2) / "if error_type:" (V3): print the error line
LogError ==
    /\ pc = "log_error"
    /\ stdout' = IF (variant = "V2" /\ error_occurred)
                    \/ (variant = "V3" /\ error_type # "")
                 THEN Append(stdout, ErrorLine)
                 ELSE stdout
    /\ outcomes' = Append(outcomes, error_type)
    /\ pc' = IF variant = "V2" THEN "status" ELSE "write_csv"
    /\ UNCHANGED << variant, hex_data, target_payload, stats, seq_no, response,
                    error_type, error_occurred, err_detail, ser, rxbuf, pending,
                    csv_exists, csv_rows, exc, exit_code, opens, closes, writes,
                    reads, line_log >>

\* mutant of CsvRow: the rx_hex column repeats the payload
CsvRowEchoesPayload ==
    [kind |-> "data", timestamp |-> "now", seq_no |-> seq_no,
     tx_hex |-> ToHexUpper(target_payload),
     rx_hex |-> ToHexUpper(target_payload),
     error_type |-> error_type]

\* the row V3 appends for the trial
CsvRow ==
    [kind |-> "data", timestamp |-> "now", seq_no |-> seq_no,
     tx_hex |-> ToHexUpper(target_payload),
     rx_hex |-> IF Len(response) # 0 THEN ToHexUpper(response) ELSE <<>>,
     error_type |-> error_type]

\* V3: with open(CSV_FILE, "a") ...: writer.writerow([...])
WriteCsvOk ==
    /\ pc = "write_csv"
    /\ csv_rows' = Append(csv_rows, CsvRow)
    /\ csv_exists' = TRUE
    /\ pc' = "status"
    /\ UNCHANGED << variant, hex_data, target_payload, stats, seq_no, response,
                    error_type, error_occurred, err_detail, ser, rxbuf, pending,
                    stdout, exc, exit_code, opens, closes, writes, reads,
                    outcomes,
                    line_log >>

\* V3: open(CSV_FILE, "a") or the write raises OSError; no except clause of
\* main() matches it
WriteCsvFail ==
    /\ pc = "write_csv"
    /\ exc' = "OSError"
    /\ pc' = RaiseFrom(variant, pc, "OSError")
    /\ UNCHANGED << variant, hex_data, target_payload, stats, seq_no, response,
                    error_type, error_occurred, err_detail, ser, rxbuf, pending,
                    csv_exists, csv_rows, stdout, exit_code, opens, closes,
                    writes, reads, outcomes,
                    line_log >>

\* mutant of StatusText: the error count shown is that of the no-response
\* class alone
StatusTextErrorsOfOneClass ==
    LET total == stats.total_sent
    IN  [kind |-> "status", cr |-> TRUE, total |-> total,
         pct_error |-> IF total > 0 THEN PctTenths(stats.err_no_resp, total)
                       ELSE 0,
         total_errors |-> stats.err_no_resp,
         no_resp |-> IF variant = "V3" THEN stats.err_no_resp
                     ELSE IF total > 0 THEN PctTenths(stats.err_no_resp, total)
                     ELSE 0,
         mismatch |-> IF variant = "V3" THEN stats.err_mismatch
                      ELSE IF total > 0 THEN PctTenths(stats.err_mismatch, total)
                      ELSE 0,
         unit |-> IF variant = "V3" THEN "count" ELSE "percent"]

\* the status line: V2 guards the division and shows percentages, V3 divides
\* unguarded and shows the two counts
StatusText ==
    LET total == stats.total_sent
    IN  [kind |-> "status", cr |-> TRUE, total |-> total,
         pct_error |-> IF total > 0 THEN PctTenths(stats.total_errors, total)
                       ELSE 0,
         total_errors |-> stats.total_errors,
         no_resp |-> IF variant = "V3" THEN stats.err_no_resp
                     ELSE IF total > 0 THEN PctTenths(stats.err_no_resp, total)
                     ELSE 0,
         mismatch |-> IF variant = "V3" THEN stats.err_mismatch
                      ELSE IF total > 0 THEN PctTenths(stats.err_mismatch, total)
                      ELSE 0,
         unit |-> IF variant = "V3" THEN "count" ELSE "percent"]

\* percentages, sys.stdout.write(status_line), flush; V3's division raises
\* ZeroDivisionError when total is 0
StatusLine ==
    /\ pc = "status"
    /\ IF variant = "V3" /\ stats.total_sent = 0
       THEN /\ exc' = "ZeroDivisionError"
            /\ pc' = RaiseFrom(variant, pc, "ZeroDivisionError")
            /\ stdout' = stdout
       ELSE /\ stdout' = Append(stdout, StatusText)
            /\ pc' = "loop_delay"
            /\ exc' = exc
    /\ UNCHANGED << variant, hex_data, target_payload, stats, seq_no, response,
                    error_type, error_occurred, err_detail, ser, rxbuf, pending,
                    csv_exists, csv_rows, exit_code, opens, closes, writes,
                    reads, outcomes,
                    line_log >>

\* time.sleep(LOOP_DELAY), then the next iteration
LoopDelay ==
    /\ pc = "loop_delay"
    /\ pc' = LoopTop(variant)
    /\ UNCHANGED << variant, hex_data, target_payload, stats, seq_no, response,
                    error_type, error_occurred, err_detail, ser, rxbuf, pending,
                    csv_exists, csv_rows, stdout, exc, exit_code, opens, closes,
                    writes, reads, outcomes,
                    line_log >>

\* ------------------------------------------------------------- environment
\* the remote end's answer to an earlier write arrives in the input buffer,
\* intact or with a byte changed.  Only read_all() looks at the buffer, so an
\* arrival is placed while main() waits for it (the sleep, the read) or just
\* before the next write: an answer that misses the read of its own trial is
\* in the buffer before the next write or arrives during a later trial
LineDeliver ==
    /\ ser = "open"
    /\ pending > 0
    /\ pc \in {"write", "sleep", "read"}
    /\ \E chunk \in LineChunks(target_payload) :
           rxbuf' = rxbuf \o chunk
    /\ pending' = pending - 1
    /\ UNCHANGED << variant, hex_data, pc, target_payload, stats, seq_no,
                    response, error_type, error_occurred, err_detail, ser,
                    csv_exists, csv_rows, stdout, exc, exit_code, opens, closes,
                    writes, reads, outcomes,
                    line_log >>

\* Ctrl-C: KeyboardInterrupt is raised at the statement main() is at
KeyboardInterrupt ==
    /\ pc \in TryPcs(variant) \cup PreTryPcs(variant)
    /\ exc' = "KeyboardInterrupt"
    /\ pc' = RaiseFrom(variant, pc, "KeyboardInterrupt")
    /\ UNCHANGED << variant, hex_data, target_payload, stats, seq_no, response,
                    error_type, error_occurred, err_detail, ser, rxbuf, pending,
                    csv_exists, csv_rows, stdout, exit_code, opens, closes,
                    writes, reads, outcomes,
                    line_log >>

\* ---------------------------------------------------------------- shutdown
\* except KeyboardInterrupt: print("\n\nTest stopped by user.")
ExceptKeyboardInterrupt ==
    /\ pc = "except_kbd"
    /\ stdout' = Append(stdout, TextLine("Test stopped by user."))
    /\ pc' = "finally"
    /\ UNCHANGED << variant, hex_data, target_payload, stats, seq_no, response,
                    error_type, error_occurred, err_detail, ser, rxbuf, pending,
                    csv_exists, csv_rows, exc, exit_code, opens, closes, writes,
                    reads, outcomes,
                    line_log >>

\* except serial.SerialException as e: print(f"\n\nSerial Error: {e}")
ExceptSerialException ==
    /\ pc = "except_serial"
    /\ stdout' = Append(stdout, TextLine("Serial Error"))
    /\ pc' = "finally"
    /\ UNCHANGED << variant, hex_data, target_payload, stats, seq_no, response,
                    error_type, error_occurred, err_detail, ser, rxbuf, pending,
                    csv_exists, csv_rows, exc, exit_code, opens, closes, writes,
                    reads, outcomes,
                    line_log >>

\* finally: if 'ser' in locals() and ser.is_open: ser.close(); print(...)
\* a handled exception then lets main() return, any other propagates
Finally ==
    /\ pc = "finally"
    /\ IF ShouldClose(ser)
       THEN /\ ser' = "closed"
            /\ closes' = closes + 1
            /\ stdout' = Append(stdout, TextLine("Port closed."))
            /\ line_log' = Append(line_log, PortCall("close", TRUE, <<>>))
       ELSE UNCHANGED << ser, closes, stdout, line_log >>
    /\ pc' = IF exc \in Caught THEN "end" ELSE "traceback"
    /\ UNCHANGED << variant, hex_data, target_payload, stats, seq_no, response,
                    error_type, error_occurred, err_detail, rxbuf, pending,
                    csv_exists, csv_rows, exc, exit_code, opens, writes, reads,
                    outcomes >>

\* the interpreter exits: status 0 when main() returned, non-zero when an
\* exception left it
ProcessExit ==
    /\ pc \in {"end", "traceback"}
    /\ exit_code' = IF pc = "end" THEN 0
                    ELSE IF exc = "KeyboardInterrupt" THEN 130
                    ELSE 1
    /\ pc' = "exited"
    /\ UNCHANGED << variant, hex_data, target_payload, stats, seq_no, response,
                    error_type, error_occurred, err_detail, ser, rxbuf, pending,
                    csv_exists, csv_rows, stdout, exc, opens, closes, writes,
                    reads, outcomes,
                    line_log >>

\* ------------------------------------------------------------ specification
Next ==
    \/ init_csv
    \/ InitCsvWriteHeader
    \/ ParsePayload
    \/ OpenPortOk
    \/ OpenPortFail
    \/ Stamp
    \/ SerWriteOk
    \/ SerWriteFail
    \/ CountSent
    \/ SleepAfterSend
    \/ SerReadAllOk
    \/ SerReadAllFail
    \/ Analyze
    \/ IncNoResp
    \/ IncTotalNoResp
    \/ IncMismatch
    \/ IncTotalMismatch
    \/ LogError
    \/ WriteCsvOk
    \/ WriteCsvFail
    \/ StatusLine
    \/ LoopDelay
    \/ LineDeliver
    \/ KeyboardInterrupt
    \/ ExceptKeyboardInterrupt
    \/ ExceptSerialException
    \/ Finally
    \/ ProcessExit

Spec == Init /\ [][Next]_vars

\* ---------------------------------------------- several runs, one CSV file
\* the script is started again after the process has exited: a new process,
\* the same script, and serial_log.csv as the earlier runs left it
Restart ==
    /\ pc = "exited"
    /\ Len(csv_rows) <= MaxLogRows
    /\ pc' = IF variant = "V2" THEN "open" ELSE "init_csv"
    /\ target_payload' = <<>>
    /\ stats' = NoStats
    /\ seq_no' = 0
    /\ response' = <<>>
    /\ error_type' = ""
    /\ error_occurred' = FALSE
    /\ err_detail' = NoDetail
    /\ ser' = "unbound"
    /\ rxbuf' = <<>>
    /\ pending' = 0
    /\ stdout' = <<>>
    /\ exc' = "none"
    /\ exit_code' = -1
    /\ opens' = 0 /\ closes' = 0 /\ writes' = 0 /\ reads' = 0
    /\ outcomes' = <<>>
    /\ line_log' = <<>>
    /\ UNCHANGED << variant, hex_data, csv_exists, csv_rows >>

LogNext == Next \/ Restart

LogSpec == Init /\ [][LogNext]_vars

\* ------------------------------------------- classification, case by case
\* all byte strings of at most n bytes over the alphabet S
BoundedSeqs(S, n) == UNION { [1..k -> S] : k \in 0..n }

\* received byte strings tried against payload tx: every short string over
\* the payload's bytes and one foreign byte, tx itself, tx with any one byte
\* changed, every proper prefix of tx, and tx followed by one more byte
RxCases(tx) ==
    LET alphabet == { tx[i] : i \in 1..Len(tx) } \cup { (tx[1] + 1) % 256 }
    IN  BoundedSeqs(alphabet, MaxRxLen)
        \cup { tx }
        \cup { [tx EXCEPT ![i] = (@ + 1) % 256] : i \in 1..Len(tx) }
        \cup { SubSeq(tx, 1, k) : k \in 0..(Len(tx) - 1) }
        \cup { Append(tx, b) : b \in alphabet }

\* main() right after the read of its first trial, with any of the cases in
\* response
ClassifyInit ==
    /\ variant \in {"V2", "V3"}
    /\ hex_data \in {HexData(variant), ShortHex}
    /\ target_payload = hex_to_bytes(hex_data).bytes
    /\ response \in RxCases(target_payload)
    /\ pc = "analyze"
    /\ stats = [NoStats EXCEPT !.total_sent = 1]
    /\ seq_no = IF variant = "V3" THEN 1 ELSE 0
    /\ error_type \in {"", "NO RESPONSE", "DATA MISMATCH"}
    /\ error_occurred = FALSE
    /\ err_detail = NoDetail
    /\ ser = "open"
    /\ rxbuf = <<>>
    /\ pending = 0
    /\ csv_exists = (variant = "V3")
    /\ csv_rows = IF csv_exists THEN <<Header>> ELSE <<>>
    /\ stdout = <<TextLine("table head")>>
    /\ exc = "none"
    /\ exit_code = -1
    /\ opens = 1 /\ closes = 0 /\ writes = 1 /\ reads = 1
    /\ outcomes = <<>>
    /\ line_log = <<PortCall("open", TRUE, <<>>), PortCall("write", TRUE, <<>>),
                    PortCall("read", TRUE, response)>>

\* the analysis of one trial, up to its error line
ClassifyNext ==
    \/ Analyze
    \/ IncNoResp
    \/ IncTotalNoResp
    \/ IncMismatch
    \/ IncTotalMismatch
    \/ LogError

ClassifySpec == ClassifyInit /\ [][ClassifyNext]_vars

\* ------------------------------------------------------------------ claims
ErrorSum == stats.err_no_resp + stats.err_mismatch

\* positions between two cycles, where no trial is in progress
AtCycleBoundary == pc \in {"loop_delay", "stamp", "write"}

\* indices of the error lines / status lines on the terminal
ErrorLines == { i \in DOMAIN stdout : stdout[i].kind = "error" }

StatusLines == { i \in DOMAIN stdout : stdout[i].kind = "status" }

\* the data rows of the CSV file
DataRows == SelectSeq(csv_rows, LAMBDA r : r.kind = "data")

\* number of entries of sequence q equal to x
Count(q, x) == Cardinality({ i \in DOMAIN q : q[i] = x })

\* C1 as stated: in every reachable state total_errors equals
\* err_no_resp + err_mismatch and does not exceed total_sent
C1_Original ==
    /\ stats.total_errors = ErrorSum
    /\ stats.total_errors <= stats.total_sent

\* C1 (amended): total_errors <= total_sent and err_no_resp + err_mismatch
\* <= total_sent always; total_errors equals the sum of the two class counters
\* except between the two increments of a failed trial, where it is one less;
\* if Ctrl-C is taken there the counters stay so.  Every status line shown was
\* rendered from counters that satisfy the equation.
C1_ErrorsAreSumOutsideUpdate ==
    /\ stats.total_errors <= stats.total_sent
    /\ ErrorSum <= stats.total_sent
    /\ ErrorSum \in {stats.total_errors, stats.total_errors + 1}
    /\ ErrorSum # stats.total_errors =>
          \/ pc \in {"inc_total_noresp", "inc_total_mismatch"}
          \/ exc = "KeyboardInterrupt"
    /\ \A i \in StatusLines :
          /\ stdout[i].total_errors <= stdout[i].total
          /\ stdout[i].unit = "count" =>
                stdout[i].total_errors = stdout[i].no_resp + stdout[i].mismatch

\* C1 witness: Ctrl-C was taken between the two increments of a mismatch and
\* the process has exited with the counters half updated
C1_Witness ==
    /\ pc = "exited"
    /\ exc = "KeyboardInterrupt"
    /\ stats.err_mismatch = 2
    /\ stats.total_errors = 1
    /\ stats.total_sent = 3

\* C2: after the N-th trial total_sent is N, and the sequence number stamped
\* on the k-th trial is k: between cycles total_sent equals the number of
\* writes performed and of trials classified; every error line carries the
\* number of the write that produced it, error lines never repeat a number,
\* the k-th status line shows Sent: k, and the j-th row V3 appends has seq_no j
C2_SequenceNumbers ==
    /\ AtCycleBoundary =>
          /\ stats.total_sent = writes
          /\ stats.total_sent = Len(outcomes)
    /\ pc = "write" /\ variant = "V3" => seq_no = writes + 1
    /\ LET el == ErrorLines
       IN  \A i \in el :
              /\ stdout[i].seq_no = stdout[i].trial
              /\ stdout[i].seq_no >= 1
              /\ \A j \in el : i < j => stdout[i].seq_no < stdout[j].seq_no
    /\ LET sl == StatusLines
       IN  \A i \in sl :
              stdout[i].total = Cardinality({ j \in sl : j <= i })
    /\ LET rows == DataRows
       IN  \A j \in DOMAIN rows : rows[j].seq_no = j

\* C2 witness: three trials are done; the third one failed and its error line
\* is stamped 3 (in V3 its row as well)
C2_Witness ==
    /\ pc = "loop_delay"
    /\ stats.total_sent = 3
    /\ writes = 3
    /\ \E i \in ErrorLines : stdout[i].seq_no = 3
    /\ variant = "V3" => Len(DataRows) = 3 /\ DataRows[3].seq_no = 3

\* the outcome the classification rule assigns to (rx, tx), byte by byte
SameBytes(rx, tx) ==
    /\ Len(rx) = Len(tx)
    /\ \A i \in 1..Len(tx) : rx[i] = tx[i]

ExpectedOutcome(rx, tx) ==
    IF Len(rx) = 0 THEN "NO RESPONSE"
    ELSE IF ~SameBytes(rx, tx) THEN "DATA MISMATCH"
    ELSE ""

\* the analysis of the trial in progress is complete
Classified == pc \in {"log_error", "write_csv", "status"}

\* C3: once a trial is classified its outcome is NoResponse if rx is empty,
\* else Mismatch if rx differs from tx in a byte or in length, else Match;
\* the error counters show exactly that one outcome (none for Match)
C3_Classification ==
    Classified =>
        LET expected == ExpectedOutcome(response, target_payload)
        IN  /\ error_type = expected
            /\ stats.err_no_resp = (IF expected = "NO RESPONSE" THEN 1 ELSE 0)
            /\ stats.err_mismatch = (IF expected = "DATA MISMATCH" THEN 1 ELSE 0)
            /\ stats.total_errors = (IF expected = "" THEN 0 ELSE 1)
            /\ pc # "log_error" => outcomes = <<expected>>

\* C3 witness: a proper prefix of the payload was received and classified
C3_Witness ==
    /\ Classified
    /\ Len(response) > 0
    /\ Len(response) < Len(target_payload)
    /\ response = SubSeq(target_payload, 1, Len(response))
    /\ error_type = "DATA MISMATCH"

\* the statistics that a list of outcomes adds up to
Tally(outs) ==
    [total_sent   |-> Len(outs),
     total_errors |-> Count(outs, "NO RESPONSE") + Count(outs, "DATA MISMATCH"),
     err_no_resp  |-> Count(outs, "NO RESPONSE"),
     err_mismatch |-> Count(outs, "DATA MISMATCH")]

\* between cycles the counters are the tally of the trials done; once the
\* trial in progress is analysed they are the tally of those trials and of
\* the outcome of what it received
C4_TallyOfOutcomes ==
    /\ AtCycleBoundary => stats = Tally(outcomes)
    /\ pc = "log_error" =>
          stats = Tally(Append(outcomes,
                               ExpectedOutcome(response, target_payload)))

\* no step decrements or resets a counter
C4_NeverDecremented ==
    /\ stats'.total_sent >= stats.total_sent
    /\ stats'.total_errors >= stats.total_errors
    /\ stats'.err_no_resp >= stats.err_no_resp
    /\ stats'.err_mismatch >= stats.err_mismatch

\* C4: each completed trial adds 1 to total_sent, and 1 to total_errors and
\* to the counter of its class when it is NoResponse or Mismatch, and nothing
\* else; no counter is ever decremented or reset
C4_TrialEffect == []C4_TallyOfOutcomes /\ [][C4_NeverDecremented]_vars

\* C4 witness: echo, echo, echo, nothing, one byte changed: 5 sent, 2 errors
\* (40.0 %), 1 no-response, 1 mismatch
C4_Witness ==
    /\ pc = "loop_delay"
    /\ target_payload = <<90, 0, 0, 0, 0, 0, 246, 150, 0, 0>>
    /\ outcomes = <<"", "", "", "NO RESPONSE", "DATA MISMATCH">>
    /\ response = <<90, 1, 0, 0, 0, 0, 246, 150, 0, 0>>
    /\ stats = [total_sent |-> 5, total_errors |-> 2, err_no_resp |-> 1,
                err_mismatch |-> 1]
    /\ stdout[Len(stdout)].kind = "status"
    /\ stdout[Len(stdout)].pct_error = 400

\* the try block was left by an exception raised while the loop ran
LoopLeft == exc # "none" /\ opens > 0 /\ Len(target_payload) > 0

\* C5 as stated: the loop is left only by a cancellation (KeyboardInterrupt)
\* or a transport fault (SerialException)
C5_OnlyCancelOrFault == LoopLeft => exc \in Caught

\* C6 as stated, in the form a finite run refutes: a run whose last trial was
\* classified NoResponse or Mismatch ends only by a cancellation or a
\* transport fault (otherwise the next write follows), and no sequence number
\* is sent or counted twice
C6_FailedTrialIsRecoverable ==
    /\ LoopLeft /\ Len(outcomes) = writes /\ writes > 0
          /\ outcomes[Len(outcomes)] # ""
       => exc \in Caught
    /\ \A i \in ErrorLines : \A j \in ErrorLines :
          i # j => stdout[i].seq_no # stdout[j].seq_no
    /\ stats.total_sent <= writes

\* the step that raises the fault classifies nothing and counts no error
C7_FaultStep ==
    exc = "none" /\ exc' = "SerialException" =>
        UNCHANGED << stats, outcomes, writes, reads, error_type, stdout >>

\* after the fault: no write, no read, no classification, no error counted
C7_AfterFault ==
    exc = "SerialException" =>
        /\ UNCHANGED << stats, outcomes, writes, reads, error_type >>
        /\ ErrorLines' = ErrorLines
        /\ StatusLines' = StatusLines

\* C7: a transport fault raised by the write or the read aborts the loop: no
\* further write or read, the faulted trial is not classified, and the error
\* counters keep their values
C7_FaultAborts == [][C7_FaultStep /\ C7_AfterFault]_vars

\* C7 witness: trial 1 failed, the read of trial 2 raised the fault, and the
\* process has exited with trial 2 unclassified and one error counted
C7_Witness ==
    /\ pc = "exited"
    /\ exc = "SerialException"
    /\ writes = 2 /\ reads = 1
    /\ outcomes = <<"DATA MISMATCH">>
    /\ stats = [total_sent |-> 2, total_errors |-> 1, err_no_resp |-> 0,
                err_mismatch |-> 1]

\* C8 as stated: the exit status is non-zero after an open error or a
\* transport fault and zero after a cancellation of the run
C8_ExitStatus ==
    exit_code # -1 =>
        /\ exc = "SerialException" => exit_code # 0
        /\ exc = "KeyboardInterrupt" /\ opens > 0 => exit_code = 0

\* C9: the port is opened at most once, never closed twice, and on every exit
\* after it was opened it has been closed exactly once before the process
\* exits
C9_ClosedExactlyOnce ==
    /\ opens <= 1
    /\ closes <= opens
    /\ ser = "open" => opens = 1 /\ closes = 0
    /\ ser = "closed" => opens = 1 /\ closes = 1
    /\ exit_code # -1 => closes = opens /\ ser # "open"

\* C9 witness: Ctrl-C during the sleep or the read of trial 2, and the process
\* has exited with the port closed once
C9_Witness ==
    /\ pc = "exited"
    /\ exc = "KeyboardInterrupt"
    /\ writes = 2 /\ reads = 1 /\ stats.total_sent = 2
    /\ opens = 1 /\ closes = 1 /\ ser = "closed"

\* C10 as stated: with a malformed payload string the port is never opened
\* and nothing is written
C10_NoOpenOnMalformedPayload ==
    ~hex_to_bytes(hex_data).ok => opens = 0 /\ writes = 0

\* C11: whatever runs of the script came before, interrupted ones included,
\* once a data row has been appended the CSV file starts with the header row,
\* holds no second header row, and every other row is a data row
C11_OneHeaderThenRows ==
    Len(DataRows) > 0 =>
        /\ csv_rows[1] = Header
        /\ Count(csv_rows, Header) = 1
        /\ Len(csv_rows) = 1 + Len(DataRows)

\* h is the bytes b written as upper-case hexadecimal, two digits a byte
IsUpperHexOf(h, b) ==
    /\ Len(h) = 2 * Len(b)
    /\ \A i \in 1..Len(b) :
          /\ h[2 * i - 1] = HexDigitsUpper[(b[i] \div 16) + 1]
          /\ h[2 * i] = HexDigitsUpper[(b[i] % 16) + 1]

\* the successful read_all() calls of this run, in order
ReadsDone == SelectSeq(line_log, LAMBDA c : c.op = "read" /\ c.ok)

\* C12 as stated (its last sentence): in the logging script, at any point of
\* a run, total_sent minus the number of rows appended in this run is 0
C12_Original ==
    variant = "V3" => stats.total_sent - Len(DataRows) = 0

\* between the read and the status line of a trial, response is what the
\* read_all() of that trial returned
ResponseIsOfTrial ==
    pc \in {"log_error", "write_csv"} =>
        LET rds == ReadsDone
        IN  /\ Len(rds) = stats.total_sent
            /\ response = rds[Len(rds)].rx

\* the rows number total_sent at cycle boundaries and are one short from the
\* count of a trial to the append of its row; the j-th row of the run has
\* seq_no j and the outcome of trial j
C12_RowsKeepUp ==
    variant = "V3" =>
        LET rows == DataRows
            short == stats.total_sent - Len(rows)
        IN  /\ short \in {0, 1}
            /\ AtCycleBoundary /\ exc = "none" =>
                  /\ Len(rows) = stats.total_sent
                  /\ Len(rows) = writes
            /\ short = 1 =>
                  \/ pc \in LoopPcs \ {"stamp", "write", "count", "status", "loop_delay"}
                  \/ exc # "none"
            /\ Len(rows) <= Len(outcomes)
            /\ \A j \in 1..Len(rows) :
                  /\ rows[j].seq_no = j
                  /\ rows[j].error_type = outcomes[j]
            /\ ResponseIsOfTrial

\* a step that changes the file after initialization appends one row, that of
\* the trial in progress: its number, the payload and the bytes read in
\* upper-case hexadecimal, and the outcome of those bytes
C12_AppendStep ==
    pc = "write_csv" /\ csv_rows' # csv_rows =>
        LET r == csv_rows'[Len(csv_rows')]
        IN  /\ csv_rows' = Append(csv_rows, r)
            /\ r.kind = "data"
            /\ r.seq_no = stats.total_sent
            /\ IsUpperHexOf(r.tx_hex, target_payload)
            /\ IsUpperHexOf(r.rx_hex, response)
            /\ r.error_type = ExpectedOutcome(response, target_payload)

\* the file changes in no other step of the loop
C12_RowsStay ==
    pc \in LoopPcs \ {"write_csv"} => csv_rows' = csv_rows

\* C12 (amended): in the logging script the j-th row appended in this run has
\* seq_no j, the payload as tx_hex, the bytes read in trial j as rx_hex and
\* trial j's outcome as error_type; when a write begins and at every other
\* cycle boundary the rows number total_sent; from the count of a trial to the
\* append of its row they are one short, and stay so when the run is ended
\* there
C12_RowPerTrial ==
    []C12_RowsKeepUp /\ [][C12_AppendStep /\ C12_RowsStay]_vars

\* C12 witness: Ctrl-C was taken in the second trial after it was counted;
\* the run has ended with one row, that of a mismatch, and total_sent = 2
C12_Witness ==
    /\ variant = "V3"
    /\ pc = "exited"
    /\ exc = "KeyboardInterrupt"
    /\ stats.total_sent = 2
    /\ Len(DataRows) = 1
    /\ DataRows[1].error_type = "DATA MISMATCH"
    /\ DataRows[1].rx_hex = ToHexUpper(Corrupt(target_payload))

\* p tenths of a percent is count / total * 100 to one decimal
IsPctOf(p, count, total) ==
    LET d == p * total - count * 1000
    IN  /\ 2 * d <= total
        /\ 2 * d >= -total

\* C13: no division by total_sent is made while it is 0 (no
\* ZeroDivisionError, and total_sent > 0 wherever the status line is computed),
\* and every percentage shown is count / total_sent * 100 of the counters of
\* its trial
C13_Percentages ==
    /\ exc # "ZeroDivisionError"
    /\ pc = "status" => stats.total_sent > 0
    /\ \A i \in StatusLines :
          LET l == stdout[i]
          IN  /\ l.total > 0
              /\ IsPctOf(l.pct_error, l.total_errors, l.total)
              /\ l.unit = "percent" =>
                    /\ IsPctOf(l.no_resp, Count(SubSeq(outcomes, 1, l.total), "NO RESPONSE"), l.total)
                    /\ IsPctOf(l.mismatch, Count(SubSeq(outcomes, 1, l.total), "DATA MISMATCH"), l.total)

\* C13 witness: the status line of the third trial of V2, one error so far, a
\* mismatch: 33.3 % (1), 0.0 %, 33.3 %
C13_Witness ==
    /\ variant = "V2"
    /\ \E i \in StatusLines :
          /\ stdout[i].total = 3
          /\ stdout[i].total_errors = 1
          /\ stdout[i].pct_error = 333
          /\ stdout[i].no_resp = 0
          /\ stdout[i].mismatch = 333

\* the port calls of the run come as open, then write and read in turn, then
\* close: a step makes at most one call; a write that returned is followed by
\* a read_all() (or the run ends), a read_all() that returned by the next
\* write (or the run ends); a write is called only when the trial before has
\* been read, classified, logged and shown
WriteReadInTurn ==
    line_log' # line_log =>
        LET c == line_log'[Len(line_log')]
        IN  /\ line_log' = Append(line_log, c)
            /\ IF line_log = <<>>
               THEN c.op = "open"
               ELSE LET p == line_log[Len(line_log)]
                    IN  /\ p.op # "close"
                        /\ ~p.ok => c.op = "close"
                        /\ p.op = "open" /\ p.ok => c.op \in {"write", "close"}
                        /\ p.op = "write" /\ p.ok => c.op \in {"read", "close"}
                        /\ p.op = "read" /\ p.ok => c.op \in {"write", "close"}
            /\ c.op = "write" =>
                  /\ reads = writes
                  /\ Len(outcomes) = writes
                  /\ Cardinality(StatusLines) = writes
                  /\ variant = "V3" => Len(DataRows) = writes
                  /\ writes' = IF c.ok THEN writes + 1 ELSE writes
            /\ c.op = "read" =>
                  /\ reads + 1 = writes
                  /\ reads' = IF c.ok THEN reads + 1 ELSE reads

\* C14 as stated: each cycle runs write, delay, read, classify, report, log:
\* a trial is read only when written, classified only when read, its status
\* line shown only when classified, and its row appended only after its status
\* line; the next write waits for the row
C14_Original ==
    /\ reads <= writes
    /\ Len(outcomes) <= reads
    /\ Cardinality(StatusLines) <= Len(outcomes)
    /\ variant = "V3" =>
          /\ Len(DataRows) <= Cardinality(StatusLines)
          /\ writes <= Len(DataRows) + 1

\* the steps of a cycle are taken in the order write, count, read, classify
\* and error line, (V3) log row, status line, and the next write waits for
\* the status line; at every cycle boundary writes = reads = total_sent
C14_CountsInOrder ==
    LET shown == Cardinality(StatusLines)
        rows == Len(DataRows)
    IN  /\ stats.total_sent <= writes
        /\ reads <= stats.total_sent
        /\ Len(outcomes) <= reads
        /\ IF variant = "V3"
           THEN /\ rows <= Len(outcomes)
                /\ shown <= rows
           ELSE shown <= Len(outcomes)
        /\ writes <= shown + 1
        /\ AtCycleBoundary /\ exc = "none" =>
              /\ writes = reads
              /\ reads = stats.total_sent
              /\ shown = writes

\* C14 (amended): trials are strictly sequential with exactly one write and
\* one read each; a cycle runs write, count, delay, read, classify, error
\* line, (V3) log row, status line: the row is appended before the status
\* line is shown; the next write waits for the status line of the trial
\* before; at every cycle boundary writes = reads = total_sent
C14_StepsInOrder ==
    []C14_CountsInOrder /\ [][WriteReadInTurn]_vars

\* C14 witness: V3 is about to show the status line of its second trial; the
\* row of that trial is already in the file
C14_Witness ==
    /\ variant = "V3"
    /\ pc = "status"
    /\ writes = 2 /\ reads = 2
    /\ Len(DataRows) = 2
    /\ Cardinality(StatusLines) = 1

\* C15: every classified trial that is not a Match has exactly one error line
\* and a Match has none; at every cycle boundary the error lines number
\* total_errors; each error line begins with a line break and carries the
\* sequence number and the outcome kind of the trial that printed it
C15_ErrorLinePerFailedTrial ==
    LET el == ErrorLines
        failed == { k \in 1..Len(outcomes) : outcomes[k] # "" }
    IN  /\ { stdout[i].seq_no : i \in el } = failed
        /\ Cardinality(el) = Cardinality(failed)
        /\ \A i \in el :
              /\ stdout[i].nl
              /\ stdout[i].seq_no = stdout[i].trial
              /\ stdout[i].error_type = outcomes[stdout[i].seq_no]
              /\ stdout[i].error_type \in {"NO RESPONSE", "DATA MISMATCH"}
        /\ AtCycleBoundary /\ exc = "none" =>
              Cardinality(el) = stats.total_errors

\* C15 witness: a Match, a NoResponse and a Mismatch in turn; at the cycle
\* boundary after them the terminal has the error lines of trials 2 and 3
C15_Witness ==
    /\ pc = "loop_delay"
    /\ outcomes = <<"", "NO RESPONSE", "DATA MISMATCH">>
    /\ Cardinality(ErrorLines) = 2
    /\ \E i, j \in ErrorLines :
          /\ i < j
          /\ stdout[i].seq_no = 2 /\ stdout[i].error_type = "NO RESPONSE"
          /\ stdout[j].seq_no = 3 /\ stdout[j].error_type = "DATA MISMATCH"

\* the error lines of Mismatch trials
MismatchLines == { i \in ErrorLines : stdout[i].error_type = "DATA MISMATCH" }

C16_PrintStep ==
    /\ Len(stdout') >= Len(stdout)
    /\ \A i \in 1..Len(stdout) : stdout'[i] = stdout[i]
    /\ \A i \in (Len(stdout) + 1)..Len(stdout') :
          LET l == stdout'[i]
          IN  l.kind = "error" /\ l.error_type = "DATA MISMATCH" =>
                  /\ pc = "log_error"
                  /\ response # <<>>
                  /\ l.seq_no = stats.total_sent
                  /\ IF variant = "V2"
                     THEN /\ l.detail.text = "Rx: "
                          /\ IsUpperHexOf(l.detail.hex, response)
                     ELSE l.detail = NoDetail

\* the row V3 appends for a Mismatch has the bytes read in the trial in its
\* rx_hex column, in upper-case hexadecimal
C16_RowStep ==
    pc = "write_csv" /\ csv_rows' # csv_rows /\ error_type = "DATA MISMATCH" =>
        /\ response # <<>>
        /\ IsUpperHexOf(csv_rows'[Len(csv_rows')].rx_hex, response)

IsRenderingOfTrial(l) ==
    /\ l.cr
    /\ l.total \in 1..Len(outcomes)
    /\ LET done == SubSeq(outcomes, 1, l.total)
           nr == Count(done, "NO RESPONSE")
           mm == Count(done, "DATA MISMATCH")
       IN  /\ l.total_errors = nr + mm
           /\ IsPctOf(l.pct_error, nr + mm, l.total)
           /\ IF l.unit = "count"
              THEN /\ l.no_resp = nr
                   /\ l.mismatch = mm
                   /\ l.total_errors = l.no_resp + l.mismatch
              ELSE /\ IsPctOf(l.no_resp, nr, l.total)
                   /\ IsPctOf(l.mismatch, mm, l.total)

\* every status line on the terminal is that of a fully classified trial, and
\* the k-th status line is that of trial k
C17_StatusLinesComplete ==
    LET sl == StatusLines
    IN  /\ \A i \in sl : IsRenderingOfTrial(stdout[i])
        /\ \A i, j \in sl : i < j => stdout[i].total < stdout[j].total
        /\ Cardinality(sl) <= Len(outcomes)

\* lines are only added to the terminal, and once an exception (Ctrl-C among
\* them) is taken none of the lines added is a status line
C17_NoneAfterCancel ==
    /\ Len(stdout') >= Len(stdout)
    /\ exc' # "none" =>
          \A i \in (Len(stdout) + 1)..Len(stdout') : stdout'[i].kind # "status"

\* C17: Ctrl-C at any point of a cycle leaves no partial or corrupt status
\* line: every status line emitted is the complete rendering of the
\* statistics of a fully classified trial (errors = no-response + mismatch,
\* total = that trial's sequence number), and none is emitted after the
\* cancellation is taken
C17_CancelKeepsStatusLinesWhole ==
    []C17_StatusLinesComplete /\ [][C17_NoneAfterCancel]_vars

\* C17 witness: Ctrl-C came while the second trial, a mismatch having been the
\* first, was waiting for or reading its answer; the run has ended with the
\* one status line of trial 1
C17_Witness ==
    /\ pc = "exited"
    /\ exc = "KeyboardInterrupt"
    /\ outcomes = <<"DATA MISMATCH">>
    /\ stats.total_sent = 2
    /\ reads = 1
    /\ Cardinality(StatusLines) = 1
    /\ \E i \in StatusLines : stdout[i].total = 1 /\ stdout[i].total_errors = 1

\* C18: under the same behaviour of the port the logging script makes the
\* port calls and computes the outcomes and statistics that V2 does.  V2
\* goes on to the next write after every read that returned, unless Ctrl-C
\* is taken; so in V3 the outcomes are those of the bytes read, the
\* statistics their tally, and close() is called only after a port call that
\* failed or after Ctrl-C
C18_SameAsWithoutLog ==
    variant = "V3" =>
        /\ \A j \in 1..Len(outcomes) :
              outcomes[j] = ExpectedOutcome(ReadsDone[j].rx, target_payload)
        /\ AtCycleBoundary => stats = Tally(outcomes)
        /\ \A i \in DOMAIN line_log :
              line_log[i].op = "close" =>
                  \/ exc = "KeyboardInterrupt"
                  \/ i > 1 /\ ~line_log[i - 1].ok

\* number of bytes the read_all() calls in q returned
RECURSIVE BytesRead(_)
BytesRead(q) == IF q = <<>> THEN 0 ELSE Len(Head(q).rx) + BytesRead(Tail(q))

\* no byte that arrived is lost: the answers that have arrived (one for every
\* write but the pending ones, each as long as the payload) are in what the
\* reads returned or still in the input buffer
C19_NoByteDiscarded ==
    BytesRead(ReadsDone) + Len(rxbuf) = (writes - pending) * Len(target_payload)

\* an answer that missed the read of its own trial makes that trial a
\* NoResponse and is at the front of what the next trial reads: when the
\* next trial's own answer follows it there, that trial is a Mismatch
C19_LateAnswerCountsTwice ==
    \A k \in 1..(Len(outcomes) - 1) :
        /\ ReadsDone[k].rx = <<>>
        /\ Len(ReadsDone[k + 1].rx) = 2 * Len(target_payload)
        => /\ outcomes[k] = "NO RESPONSE"
           /\ outcomes[k + 1] = "DATA MISMATCH"
           /\ SubSeq(ReadsDone[k + 1].rx, 1, Len(target_payload)) \in LineChunks(target_payload)

\* ser.write() leaves the input buffer as it is; read_all() returns all of it
\* and empties it; no other step takes bytes out of it
C19_BufferSteps ==
    /\ writes' = writes + 1 => rxbuf' = rxbuf
    /\ reads' = reads + 1 => response' = rxbuf /\ rxbuf' = <<>>
    /\ reads' = reads => /\ Len(rxbuf') >= Len(rxbuf)
                         /\ SubSeq(rxbuf', 1, Len(rxbuf)) = rxbuf

============================================================================
